---------------------------- MODULE Spec2Model ----------------------------
(***************************************************************************)
(* A model of the AOO source session engine (class AooSource): the sink    *)
(* registry, the stream session fields, the sample buffer, the public      *)
(* operations addSink / start / stop / updateSampleRate / sendAudio, the   *)
(* inbound dispatcher (/invite, /start, /ping) and the OSC and frame       *)
(* codec, byte by byte.                                                    *)
(*                                                                         *)
(* Spec is the session with sinks that invite; SpecInbound adds the sinks' *)
(* /start and /ping and the documented removeSink; SpecAny lets a peer     *)
(* send ill-typed and truncated datagrams and datagrams no branch handles; *)
(* SpecCodec runs the codec alone; SpecClose adds close() and the calls of *)
(* sendAudio with one array; SpecConfig builds the source from any options *)
(* and runs the drain loop of sendAudio one iteration at a time; SpecWrap  *)
(* starts where the sequence counter is about to wrap; SpecTrack keeps a   *)
(* record of every /start sent.                                            *)
(*                                                                         *)
(* The object is modelled as a record `this`; every method is an operator  *)
(* from the object before the call to the object after it.  The field      *)
(* `sent` of that record is the transport: the datagrams handed to         *)
(* socket.send during the call, in order.  `blocks` records the arguments  *)
(* of the _sendBlock calls made during the call, and `thrown` whether an   *)
(* exception is on its way out of the method.                              *)
(*                                                                         *)
(* Samples are float32-exact values; a pushed sample is tagged with its    *)
(* position in the push order since the last buffer clear, so that any     *)
(* loss, duplication or reordering between push and wire is visible.       *)
(***************************************************************************)
EXTENDS Integers, Sequences, FiniteSets, TLC

\* ------------------------------------------------------------------ bounds
MaxK == 3
MaxPushed == 8
MaxFormatId == 2
MaxBriefK == 1
MaxBriefPushed == 2
MaxArgs == 2
MaxDrain == 3

\* ------------------------------------------------------- program constants
SeqWrap == 2147483647
UInt16Max == 65535
PcmFloat32 == 3
kAooBinMsgDomainBit == 128
kAooBinMsgCmdData == 0
kAooMsgTypeSink == 1
NanosPerMilli == 1000000
\* '2.0' and 'pcm'
DefaultVersion == << 50, 46, 48 >>
CodecName == << 112, 99, 109 >>
\* '/invite', '/start', '/ping', '/aoo/sink/' and '/pong'
InvitePart == << 47, 105, 110, 118, 105, 116, 101 >>
StartPart == << 47, 115, 116, 97, 114, 116 >>
PingPart == << 47, 112, 105, 110, 103 >>
SinkPrefix == << 47, 97, 111, 111, 47, 115, 105, 110, 107, 47 >>
PongPart == << 47, 112, 111, 110, 103 >>
DefaultSampleRate == 48000
DefaultSourceId == 1
DefaultChannels == 2
DefaultBlockSize == 256
InviteSinkId == 1

\* ----------------------------------------------------------- input domains
Peers == { <<"127.0.0.1", 9999>>, <<"10.0.0.5", 7000>> }
SinkIds == {1}
Rates == {44100, 48000}
ConfigChannels == {1, 2}
ConfigBlockSizes == {2}
InitStreamIds == {12345}
Tokens == {-5}
\* '2.1', the version a sink reports
SinkVersions == { << 50, 46, 49 >> }
PingTimes == {123456}
\* readings of Date.now()
Clock == {2}
\* '/aoo/src/1/invite', '/aoo/src/1/start', '/aoo/src/1/ping'
InviteAddress == << 47, 97, 111, 111, 47, 115, 114, 99, 47, 49 >> \o InvitePart
StartAddress == << 47, 97, 111, 111, 47, 115, 114, 99, 47, 49 >> \o StartPart
PingAddress == << 47, 97, 111, 111, 47, 115, 114, 99, 47, 49 >> \o PingPart

VARIABLES
    channels, sampleRate, blockSize, sourceId,      \* configuration
    sinks,                                          \* registry, insertion order
    sequence, streamId, isStreaming, formatId,
    sinkVersion, startSent, sampleBuffer,
    sent, blocks, threw,                            \* outcome of the last call
    op, pre,                                        \* the last call, and the state it saw
    frameSeqs, framed, npushed, audioCalls, pending, \* history
    codec,                                          \* the last codec call on its own
    socket,                                         \* the UDP socket: open or closed
    emitted,                                        \* events handed to listeners by the last call
    pc,                                             \* where a sendAudio run step by step stands
    started                                         \* who was sent a /start of which stream

obj == << channels, sampleRate, blockSize, sourceId, sinks, sequence, streamId,
          isStreaming, formatId, sinkVersion, startSent, sampleBuffer, socket >>
vars == << obj, sent, blocks, threw, op, pre, frameSeqs, framed, npushed,
           audioCalls, pending, codec, emitted, pc, started >>

\* --------------------------------------------------------------- helpers
RECURSIVE Flatten(_)
Flatten(ss) == IF ss = << >> THEN << >> ELSE Head(ss) \o Flatten(Tail(ss))

\* the object as the methods see it
This ==
    [ channels |-> channels, sampleRate |-> sampleRate, blockSize |-> blockSize,
      sourceId |-> sourceId, sinks |-> sinks, sequence |-> sequence,
      streamId |-> streamId, isStreaming |-> isStreaming, formatId |-> formatId,
      sinkVersion |-> sinkVersion, startSent |-> startSent,
      sampleBuffer |-> sampleBuffer, socket |-> socket, sent |-> << >>,
      blocks |-> << >>, emitted |-> << >>, thrown |-> FALSE ]

\* socket.send(msg, port, host); a closed socket refuses with an exception
Send(this, msg) ==
    IF this.socket = "closed" THEN [this EXCEPT !.thrown = TRUE]
    ELSE [this EXCEPT !.sent = Append(@, msg)]

\* an exception leaves the method: the statements after it are not executed
Throw(this) == [this EXCEPT !.thrown = TRUE]
\* try { ... } catch (e) { }
Caught(this) == [this EXCEPT !.thrown = FALSE]

\* ------------------------------------------------------- JavaScript values
\* A value is a record of its kind and content.  Text is a sequence of character
\* codes.  A number is split by what the Buffer calls distinguish: an integer
\* that fits int32 ("number"), a finite non-integer ("fraction", num is its
\* truncation), a finite number of magnitude 2^31 or more ("huge", num is its
\* sign), an infinity (num is its sign) and NaN.
JsNumber(n) == [js |-> "number", num |-> n, str |-> << >>]
JsFraction(n) == [js |-> "fraction", num |-> n, str |-> << >>]
JsHuge(sign) == [js |-> "huge", num |-> sign, str |-> << >>]
JsInfinity(sign) == [js |-> "infinity", num |-> sign, str |-> << >>]
JsNaN == [js |-> "NaN", num |-> 0, str |-> << >>]
JsString(s) == [js |-> "string", num |-> 0, str |-> s]
JsBuffer(b) == [js |-> "buffer", num |-> 0, str |-> b]
JsBigInt(n) == [js |-> "bigint", num |-> n, str |-> << >>]
JsNull == [js |-> "null", num |-> 0, str |-> << >>]
JsBoolean(b) == [js |-> "boolean", num |-> IF b THEN 1 ELSE 0, str |-> << >>]
JsUndefined == [js |-> "undefined", num |-> 0, str |-> << >>]

\* the left operand of `value || fallback` is kept
Truthy(v) ==
    CASE v.js \in {"number", "bigint", "boolean"} -> v.num # 0
      [] v.js = "string" -> v.str # << >>
      [] v.js \in {"NaN", "null", "undefined"} -> FALSE
      [] OTHER -> TRUE

Digits == 48..57
\* no character of s is a decimal digit: Number(s) is NaN unless s is empty
NoDigit(s) == \A i \in 1..Len(s) : s[i] \notin Digits

\* ----------------------------------------------------------- Buffer calls
Int32Min == -2147483647 - 1
Int32Max == 2147483647

Pad4(n) == ((n + 3) \div 4) * 4
Zeros(n) == [i \in 1..n |-> 0]

\* buf.writeInt32BE(value): value = +value, then the range check
Int32Throws(v) ==
    CASE v.js = "number" -> FALSE
      [] v.js = "fraction" -> v.num = Int32Max \/ v.num = Int32Min
      [] v.js \in {"huge", "infinity", "bigint"} -> TRUE
      [] v.js \in {"NaN", "null", "boolean"} -> FALSE
      [] v.js = "string" /\ NoDigit(v.str) -> FALSE

\* the integer whose two's complement writeInt32BE stores
Int32Written(v) ==
    CASE v.js \in {"number", "fraction", "boolean"} -> v.num
      [] v.js \in {"NaN", "null"} -> 0
      [] v.js = "string" /\ NoDigit(v.str) -> 0

Int32BE(n) ==
    LET low == IF n < 0 THEN n - Int32Min ELSE n
    IN  << (IF n < 0 THEN 128 ELSE 0) + low \div 16777216,
           (low \div 65536) % 256, (low \div 256) % 256, low % 256 >>

\* buf.writeBigUInt64BE(value) of a time-tag below 2^31
UInt64BE(n) == << 0, 0, 0, 0 >> \o Int32BE(n)

\* Buffer.alloc(ceil((s.length + 1) / 4) * 4).write(s, 0, 'ascii')
PaddedString(s) == s \o Zeros(Pad4(Len(s) + 1) - Len(s))

At(buf, i) == buf[i + 1]

\* buf.readInt32BE(offset) throws when the four bytes are not all inside buf
ReadThrows(buf, offset) == offset < 0 \/ offset + 4 > Len(buf)

readInt32BE(buf, offset) ==
    LET b0 == At(buf, offset)
    IN  (IF b0 >= 128 THEN b0 - 256 ELSE b0) * 16777216
            + At(buf, offset + 1) * 65536 + At(buf, offset + 2) * 256
            + At(buf, offset + 3)


RECURSIVE Pow2(_)
Pow2(k) == IF k = 0 THEN 1 ELSE 2 * Pow2(k - 1)

\* buf.readFloatBE(offset): IEEE 754 binary32, by sign, exponent and fraction
readFloatBE(buf, offset) ==
    LET b0 == At(buf, offset)
        b1 == At(buf, offset + 1)
        sign == IF b0 >= 128 THEN -1 ELSE 1
        exponent == (b0 % 128) * 2 + b1 \div 128
        fraction == (b1 % 128) * 65536 + At(buf, offset + 2) * 256
                        + At(buf, offset + 3)
        significand == 8388608 + fraction
        shift == 150 - exponent
    IN  IF exponent = 255
        THEN IF fraction = 0 THEN JsInfinity(sign) ELSE JsNaN
        ELSE IF exponent = 0
        THEN IF fraction = 0 THEN JsNumber(0) ELSE JsFraction(0)
        ELSE IF exponent >= 158
        THEN IF sign = -1 /\ exponent = 158 /\ fraction = 0
             THEN JsNumber(Int32Min) ELSE JsHuge(sign)
        ELSE IF exponent >= 150
        THEN JsNumber(sign * significand * Pow2(exponent - 150))
        ELSE IF exponent < 127
        THEN JsFraction(0)
        ELSE IF significand % Pow2(shift) = 0
        THEN JsNumber(sign * (significand \div Pow2(shift)))
        ELSE JsFraction(sign * (significand \div Pow2(shift)))

\* buf.indexOf(0, from), -1 when there is none
RECURSIVE IndexOfZero(_, _)
IndexOfZero(buf, from) ==
    IF from < 0 THEN IndexOfZero(buf, IF Len(buf) + from < 0 THEN 0 ELSE Len(buf) + from)
    ELSE IF from >= Len(buf) THEN -1
    ELSE IF At(buf, from) = 0 THEN from
    ELSE IndexOfZero(buf, from + 1)

\* buf.slice(start, end): a negative index counts from the end, both are clamped
Clamp(buf, i) ==
    IF i < 0 THEN (IF Len(buf) + i < 0 THEN 0 ELSE Len(buf) + i)
    ELSE IF i > Len(buf) THEN Len(buf) ELSE i

slice(buf, start, end) == SubSeq(buf, Clamp(buf, start) + 1, Clamp(buf, end))

\* buf.toString('ascii', start, end): empty unless 0 <= start < end, the end is
\* clamped to the length, and every byte loses its high bit
toAscii(buf, start, end) ==
    LET from == IF start < 0 THEN 0 ELSE start
        to == IF end > Len(buf) THEN Len(buf) ELSE end
    IN  IF to <= from THEN << >>
        ELSE [i \in 1..(to - from) |-> At(buf, from + i - 1) % 128]

\* String.prototype.includes
Includes(text, part) ==
    \E i \in 0..(Len(text) - Len(part)) : SubSeq(text, i + 1, i + Len(part)) = part

\* -------------------------------------------------------------- OSC codec
\* the character code of a type tag
TagCode == [i |-> 105, f |-> 102, s |-> 115, b |-> 98, t |-> 116,
            N |-> 78, T |-> 84, F |-> 70]
Comma == 44

Arg(type, value) == [type |-> type, value |-> value]

\* the Buffer call made for one argument of _buildOSCMessage throws
EncodeThrows(arg) ==
    CASE arg.type = "i" -> Int32Throws(arg.value)
      [] arg.type = "s" -> arg.value.js # "string"
      [] arg.type = "b" -> arg.value.js # "buffer"
      [] arg.type = "t" -> arg.value.js # "bigint" \/ arg.value.num < 0
      [] OTHER -> FALSE

\* the bytes _buildOSCMessage pushes for one argument
EncodeArg(arg) ==
    CASE arg.type = "i" -> Int32BE(Int32Written(arg.value))
      [] arg.type = "s" -> PaddedString(arg.value.str)
      [] arg.type = "b" ->
            Int32BE(Len(arg.value.str)) \o arg.value.str
                \o Zeros(Pad4(Len(arg.value.str)) - Len(arg.value.str))
      [] arg.type = "t" -> UInt64BE(arg.value.num)
      [] OTHER -> << >>

buildOSCMessageThrows(args) == \E i \in 1..Len(args) : EncodeThrows(args[i])

buildOSCMessage(address, args) ==
    PaddedString(address)
        \o PaddedString(<< Comma >> \o [i \in 1..Len(args) |-> TagCode[args[i].type]])
        \o Flatten([i \in 1..Len(args) |-> EncodeArg(args[i])])

\* for (const tag of typeTags) { if (offset >= buf.length) break; switch (tag) ... }
RECURSIVE ParseTags(_, _, _, _)
ParseTags(buf, tags, offset, args) ==
    IF tags = << >> \/ offset >= Len(buf)
    THEN [thrown |-> FALSE, args |-> args]
    ELSE LET tag == Head(tags)
             rest == Tail(tags)
         IN  CASE tag \in {TagCode.i, TagCode.f} ->
                    IF ReadThrows(buf, offset)
                    THEN [thrown |-> TRUE, args |-> << >>]
                    ELSE ParseTags(buf, rest, offset + 4,
                             Append(args, IF tag = TagCode.i
                                          THEN JsNumber(readInt32BE(buf, offset))
                                          ELSE readFloatBE(buf, offset)))
               [] tag = TagCode.s ->
                    LET strEnd == IndexOfZero(buf, offset)
                    IN  ParseTags(buf, rest, Pad4(strEnd + 1),
                            Append(args, JsString(toAscii(buf, offset, strEnd))))
               [] tag = TagCode.b ->
                    IF ReadThrows(buf, offset)
                    THEN [thrown |-> TRUE, args |-> << >>]
                    ELSE LET size == readInt32BE(buf, offset)
                         IN  ParseTags(buf, rest, Pad4(offset + 4 + size),
                                 Append(args, JsBuffer(slice(buf, offset + 4,
                                                             offset + 4 + size))))
               [] tag = TagCode.N -> ParseTags(buf, rest, offset, Append(args, JsNull))
               [] tag = TagCode.T ->
                    ParseTags(buf, rest, offset, Append(args, JsBoolean(TRUE)))
               [] tag = TagCode.F ->
                    ParseTags(buf, rest, offset, Append(args, JsBoolean(FALSE)))
               [] OTHER -> ParseTags(buf, rest, offset, args)

\* the decoded arguments, or thrown when a read ran off the buffer
parseOscArgs(buf, addressEnd) ==
    LET offset == Pad4(addressEnd + 1)
        typeTagEnd == IndexOfZero(buf, offset)
    IN  IF offset >= Len(buf) \/ typeTagEnd = -1
        THEN [thrown |-> FALSE, args |-> << >>]
        ELSE ParseTags(buf, toAscii(buf, offset + 1, typeTagEnd),
                       Pad4(typeTagEnd + 1), << >>)

\* ------------------------------------------------------------- the registry
SinkKey(host, port, sinkId) == << host, port, sinkId >>
KeyOf(sink) == SinkKey(sink.host, sink.port, sink.sinkId)
HasSink(this, key) == \E i \in 1..Len(this.sinks) : KeyOf(this.sinks[i]) = key

\* Map.set: an existing key keeps its place and gets the new value
addSink(this, host, port, sinkId) ==
    LET entry == [host |-> host, port |-> port, sinkId |-> sinkId, active |-> TRUE]
        key == SinkKey(host, port, sinkId)
    IN  IF HasSink(this, key)
        THEN [this EXCEPT !.sinks =
                 [i \in 1..Len(@) |-> IF KeyOf(@[i]) = key THEN entry ELSE @[i]]]
        ELSE [this EXCEPT !.sinks = Append(@, entry)]

\* the class defines no removeSink: calling the undefined property throws a
\* TypeError and the registry is as before
removeSink(this, host, port) == Throw(this)

\* ---------------------------------------------------------- the datagrams
\* const version = this.sinkVersion || '2.0'
StartVersion(this) ==
    IF Truthy(this.sinkVersion) THEN this.sinkVersion ELSE JsString(DefaultVersion)

\* the argument list _sendStartOSC hands to _buildOSCMessage
StartArgs(this) ==
    << Arg("i", JsNumber(this.sourceId)), Arg("s", StartVersion(this)),
       Arg("i", this.streamId), Arg("i", JsNumber(this.sequence)),
       Arg("i", JsNumber(this.formatId)), Arg("i", JsNumber(this.channels)),
       Arg("i", JsNumber(this.sampleRate)), Arg("i", JsNumber(this.blockSize)),
       Arg("s", JsString(CodecName)), Arg("b", JsBuffer(Int32BE(PcmFloat32))),
       Arg("t", JsBigInt(0)), Arg("i", JsNumber(this.sampleRate \div 10)),
       Arg("i", JsNumber(0)), Arg("N", JsNull), Arg("N", JsNull),
       Arg("i", JsNumber(0)) >>

\* the /start OSC message as a sink reads it: the values on the wire
StartMessage(this, host, port, sinkId) ==
    [ kind |-> "start", host |-> host, port |-> port, sinkId |-> sinkId,
      sourceId |-> this.sourceId,
      version |-> StartVersion(this).str,
      streamId |-> Int32Written(this.streamId), sequence |-> this.sequence,
      formatId |-> this.formatId, channels |-> this.channels,
      sampleRate |-> this.sampleRate, blockSize |-> this.blockSize,
      codec |-> CodecName, reblock |-> this.sampleRate \div 10 ]

sendStartOSC(this, host, port, sinkId) ==
    IF this.thrown THEN this
    ELSE IF buildOSCMessageThrows(StartArgs(this)) THEN Throw(this)
    ELSE Send(this, StartMessage(this, host, port, sinkId))

\* the binary audio frame, by its header fields and payload
buildDataMessage(this, sink, samples) ==
    [ kind |-> "data", host |-> sink.host, port |-> sink.port,
      sinkId |-> sink.sinkId % 256, sourceId |-> this.sourceId % 256,
      streamId |-> Int32Written(this.streamId), sequence |-> this.sequence,
      length |-> 4 * Len(samples), payload |-> samples ]

\* a header whose length field is a single byte
buildDataHeader_ByteLength(this, sink, audioLength) ==
    << kAooMsgTypeSink + kAooBinMsgDomainBit, kAooBinMsgCmdData,
       sink.sinkId % 256, this.sourceId % 256 >>
        \o Int32BE(Int32Written(this.streamId)) \o Int32BE(this.sequence)
        \o << 0, 0 >> \o << 0, audioLength % 256 >>

\* the 16 bytes _buildDataMessage writes in front of the audio data
buildDataHeader(this, sink, audioLength) ==
    << kAooMsgTypeSink + kAooBinMsgDomainBit, kAooBinMsgCmdData,
       sink.sinkId % 256, this.sourceId % 256 >>
        \o Int32BE(Int32Written(this.streamId)) \o Int32BE(this.sequence)
        \o << 0, 0 >> \o << (audioLength \div 256) % 256, audioLength % 256 >>

\* msg.writeInt32BE(this.streamId) or msg.writeUInt16BE(audioData.length) throws
buildDataMessageThrows(this, audioLength) ==
    Int32Throws(this.streamId) \/ audioLength > UInt16Max

\* for (const sink of this.sinks.values()) if (sink.active) _sendStartOSC(...)
RECURSIVE StartEachActive(_, _)
StartEachActive(this, i) ==
    IF i > Len(this.sinks) \/ this.thrown THEN this
    ELSE LET sink == this.sinks[i]
         IN  StartEachActive(
                 IF sink.active
                 THEN sendStartOSC(this, sink.host, sink.port, sink.sinkId)
                 ELSE this,
                 i + 1)

\* for (const sink of this.sinks.values()) socket.send(_buildDataMessage(...))
RECURSIVE DataEachSink(_, _, _)
DataEachSink(this, samples, i) ==
    IF i > Len(this.sinks) \/ this.thrown THEN this
    ELSE DataEachSink(
             IF buildDataMessageThrows(this, 4 * Len(samples)) THEN Throw(this)
             ELSE Send(this, buildDataMessage(this, this.sinks[i], samples)),
             samples, i + 1)

\* ------------------------------------------------------------ the session
\* a start() that forgets to reset the sequence counter
start_KeepSequence(this) ==
    IF this.isStreaming THEN this
    ELSE [this EXCEPT !.isStreaming = TRUE,
                      !.sampleBuffer = << >>, !.startSent = FALSE]

\* a start() without the already-streaming guard
start_Always(this) ==
    [this EXCEPT !.isStreaming = TRUE, !.sequence = 0,
                 !.sampleBuffer = << >>, !.startSent = FALSE]

start(this) ==
    IF this.isStreaming THEN this
    ELSE [this EXCEPT !.isStreaming = TRUE, !.sequence = 0,
                      !.sampleBuffer = << >>, !.startSent = FALSE]

\* a broadcast that forgets to set the announced flag
sendStartToAllSinks_NoFlag(this) == StartEachActive(this, 1)

sendStartToAllSinks(this) ==
    LET announced == StartEachActive(this, 1)
    IN  IF announced.thrown THEN announced
        ELSE [announced EXCEPT !.startSent = TRUE]

\* a stop() that clears the buffer and the announced flag at once
stop_Clearing(this) ==
    [this EXCEPT !.isStreaming = FALSE, !.sampleBuffer = << >>, !.startSent = FALSE]

stop(this) == [this EXCEPT !.isStreaming = FALSE]

\* this.stop(); this.socket.close(): closing a socket that is not running
\* throws ERR_SOCKET_DGRAM_NOT_RUNNING
close(this) ==
    LET stopped == stop(this)
    IN  IF stopped.socket = "closed" THEN Throw(stopped)
        ELSE [stopped EXCEPT !.socket = "closed"]

\* a rate update that bumps formatId even when the rate stays
setSampleRate_AlwaysBump(this, newRate) ==
    [this EXCEPT !.sampleRate = newRate, !.formatId = @ + 1]

\* a rate change that forgets to bump formatId
setSampleRate_NoBump(this, newRate) ==
    IF this.sampleRate # newRate
    THEN [this EXCEPT !.sampleRate = newRate]
    ELSE this

setSampleRate(this, newRate) ==
    IF this.sampleRate # newRate
    THEN [this EXCEPT !.sampleRate = newRate, !.formatId = @ + 1]
    ELSE this

\* a rate change that is broadcast whether or not the session was announced
updateSampleRate_AlwaysAnnounce(this, newRate) ==
    IF this.sampleRate # newRate
    THEN StartEachActive(
             [this EXCEPT !.sampleRate = newRate, !.formatId = @ + 1], 1)
    ELSE this

\* a re-announcement sent before the new format is stored
updateSampleRate_StaleStart(this, newRate) ==
    IF ~this.startSent THEN setSampleRate(this, newRate)
    ELSE IF this.sampleRate # newRate
         THEN [StartEachActive(this, 1) EXCEPT
                  !.sampleRate = newRate, !.formatId = @ + 1]
         ELSE this

updateSampleRate(this, newRate) ==
    IF ~this.startSent THEN setSampleRate(this, newRate)
    ELSE IF this.sampleRate # newRate
         THEN StartEachActive(
                  [this EXCEPT !.sampleRate = newRate, !.formatId = @ + 1], 1)
         ELSE this

\* a counter that wraps to 1
NextSequence_WrapToOne(n) == IF n + 1 >= SeqWrap THEN 1 ELSE n + 1

NextSequence(n) == IF n + 1 >= SeqWrap THEN 0 ELSE n + 1

\* blocks records the calls that ran to their end
sendBlock(this, samples) ==
    LET sentAll == DataEachSink(this, samples, 1)
    IN  IF sentAll.thrown THEN sentAll
        ELSE [sentAll EXCEPT
                !.blocks = Append(@, [sequence |-> this.sequence, payload |-> samples]),
                !.sequence = NextSequence(@)]

\* an interleave that pushes the right sample first
Interleave_Swapped(left, right) ==
    [j \in 1..(2 * Len(left)) |->
        IF j % 2 = 1 THEN right[(j + 1) \div 2] ELSE left[j \div 2]]

\* for (i...) { push(leftArr[i]); push(rightArr[i]) }
Interleave(left, right) ==
    [j \in 1..(2 * Len(left)) |->
        IF j % 2 = 1 THEN left[(j + 1) \div 2] ELSE right[j \div 2]]

\* while (sampleBuffer.length >= samplesPerBlock) _sendBlock(splice(0, samplesPerBlock))
RECURSIVE Drain(_, _)
Drain(this, samplesPerBlock) ==
    IF ~this.thrown /\ Len(this.sampleBuffer) >= samplesPerBlock
    THEN Drain(sendBlock([this EXCEPT !.sampleBuffer =
                             SubSeq(@, samplesPerBlock + 1, Len(@))],
                         SubSeq(this.sampleBuffer, 1, samplesPerBlock)),
               samplesPerBlock)
    ELSE this

\* a sendAudio without the not-streaming guard
sendAudio_NoGuard(this, left, right, rate) ==
    LET announced ==
            IF ~this.startSent
            THEN sendStartToAllSinks(
                     IF rate # 0 /\ rate # this.sampleRate
                     THEN setSampleRate(this, rate) ELSE this)
            ELSE this
        pushed == IF announced.thrown THEN announced
                       ELSE [announced EXCEPT
                                !.sampleBuffer = @ \o Interleave(left, right)]
    IN  Drain(pushed, this.blockSize * this.channels)

\* the first /start of the session, sent before the samples are looked at
announce(this, rate) ==
    IF ~this.startSent
    THEN sendStartToAllSinks(IF rate # 0 /\ rate # this.sampleRate
                             THEN setSampleRate(this, rate) ELSE this)
    ELSE this

\* sendAudio of a streaming source up to its drain loop
pushAudio(this, left, right, rate) ==
    LET announced == announce(this, rate)
    IN  IF announced.thrown THEN announced
        ELSE [announced EXCEPT !.sampleBuffer = @ \o Interleave(left, right)]

\* sampleRate = 0 stands for an absent (falsy) third argument
sendAudio(this, left, right, rate) ==
    IF ~this.isStreaming THEN this
    ELSE Drain(pushAudio(this, left, right, rate), this.blockSize * this.channels)

\* sendAudio(...arrays): the first two arguments are left and right, and
\* Array.from(undefined) throws for one that is not given
sendAudioOf(this, arrays, rate) ==
    IF ~this.isStreaming THEN this
    ELSE IF Len(arrays) < 2 THEN Throw(announce(this, rate))
    ELSE sendAudio(this, arrays[1], arrays[2], rate)

\* ------------------------------------------------- the datagrams of a sink
\* what a sink that follows the protocol sends: the message with its leading
\* arguments, as an OSC encoder lays it out
SinkIdArg == Arg("i", JsNumber(InviteSinkId))

InviteDatagrams ==
    { buildOSCMessage(InviteAddress, << >>),
      buildOSCMessage(InviteAddress, << SinkIdArg >>) }
    \cup { buildOSCMessage(InviteAddress, << SinkIdArg, Arg("i", JsNumber(t)) >>) :
              t \in Tokens }

StartDatagrams ==
    { buildOSCMessage(StartAddress, << SinkIdArg >>) }
    \cup { buildOSCMessage(StartAddress, << SinkIdArg, Arg("s", JsString(v)) >>) :
              v \in SinkVersions }

\* the time-tag of a /ping as an OSC time-tag and as an int32
PingDatagrams ==
    { buildOSCMessage(PingAddress, << SinkIdArg >>) }
    \cup { buildOSCMessage(PingAddress, << SinkIdArg, Arg("t", JsBigInt(t)) >>) :
              t \in PingTimes }
    \cup { buildOSCMessage(PingAddress, << SinkIdArg, Arg("i", JsNumber(t)) >>) :
              t \in PingTimes }

\* what any peer can send.  3e9 as a binary32 is a number no int32 holds.
HugeFloat == << 79, 50, 208, 94 >>
Truncated(msg) == SubSeq(msg, 1, Len(msg) - 2)
TwoInts(address, second) ==
    buildOSCMessage(address, << SinkIdArg, Arg("i", JsNumber(second)) >>)

AnyDatagrams ==
    { \* /invite ,if 1 3e9
      PaddedString(InviteAddress) \o PaddedString(<< Comma, TagCode.i, TagCode.f >>)
          \o Int32BE(InviteSinkId) \o HugeFloat,
      \* /invite and /start whose last argument is cut short
      Truncated(TwoInts(InviteAddress, 7)),
      Truncated(TwoInts(StartAddress, 7)),
      \* /start ,ii 1 2
      TwoInts(StartAddress, 2),
      \* /ping ,ii 1 -5
      TwoInts(PingAddress, -5),
      \* an audio frame header
      << 129, 0, 1, 1 >> }

\* an /invite with two arguments whose first byte has the binary-domain bit set
BinaryInvite == << 47 + kAooBinMsgDomainBit >> \o Tail(TwoInts(InviteAddress, 7))

\* what the dispatcher has no branch for
IgnoredDatagrams ==
    { BinaryInvite,
      \* '/invite' with no NUL after it
      InvitePart,
      \* an /invite after a leading NUL
      << 0 >> \o TwoInts(InviteAddress, 7),
      \* '/aoo/src/1/pong' ,ii 1 7
      TwoInts(SubSeq(InviteAddress, 1, 10) \o PongPart, 7) }

Datagrams ==
    InviteDatagrams \cup StartDatagrams \cup PingDatagrams \cup AnyDatagrams
        \cup IgnoredDatagrams

\* ------------------------------------------------------------ the dispatcher
\* BigInt(value) throws for a non-integer number and for text that is no integer
BigIntThrows(v) ==
    CASE v.js \in {"number", "bigint", "boolean"} -> FALSE
      [] v.js \in {"fraction", "NaN", "infinity", "null"} -> TRUE
      [] v.js = "string" /\ NoDigit(v.str) -> v.str # << >>

RECURSIVE Decimal(_)
Decimal(n) ==
    IF n < 0 THEN << 45 >> \o Decimal(-n)
    ELSE IF n < 10 THEN << 48 + n >>
    ELSE Decimal(n \div 10) \o << 48 + (n % 10) >>

\* `${value}` of a decoded argument
ToText(v) ==
    CASE v.js = "number" -> Decimal(v.num)
      [] v.js = "string" -> v.str
      [] v.js = "null" -> << 110, 117, 108, 108 >>
      [] v.js = "boolean" -> IF v.num = 1 THEN << 116, 114, 117, 101 >>
                             ELSE << 102, 97, 108, 115, 101 >>

\* the /pong OSC message as a sink reads it
PongMessage(this, host, port, sinkId, tt1, tt2) ==
    [ kind |-> "pong", host |-> host, port |-> port,
      address |-> SinkPrefix \o ToText(sinkId) \o PongPart,
      sourceId |-> this.sourceId, tt1 |-> tt1, tt2 |-> tt2 ]

\* now is the reading of Date.now(); everything happens inside try/catch
sendPong(this, host, port, parsed, now) ==
    LET sinkId == parsed.args[1]
        tt1 == IF Truthy(parsed.args[2]) THEN parsed.args[2] ELSE JsNumber(0)
        tt2 == JsBigInt(now * NanosPerMilli)
        echoed == JsBigInt(tt1.num)
    IN  IF parsed.thrown \/ Len(parsed.args) < 2 THEN this
        ELSE IF BigIntThrows(tt1) THEN this
        ELSE IF buildOSCMessageThrows(<< Arg("i", JsNumber(this.sourceId)),
                                         Arg("t", echoed), Arg("t", tt2) >>)
        THEN this
        ELSE Caught(Send(this, PongMessage(this, host, port, sinkId, echoed.num,
                                           tt2.num)))

\* an /invite that restarts a session already streaming
handleInvite_Restart(this, rinfo, args) ==
    IF Len(args) >= 2
    THEN LET adopted == [this EXCEPT !.streamId = args[2], !.formatId = 0,
                                      !.sequence = 0]
             added == addSink(adopted, rinfo[1], rinfo[2], InviteSinkId)
             replied == sendStartOSC(added, rinfo[1], rinfo[2], InviteSinkId)
         IN  IF replied.thrown THEN replied ELSE start(stop(replied))
    ELSE this

\* an /invite answered with a /start to every registered sink
handleInvite_Broadcast(this, rinfo, args) ==
    IF Len(args) >= 2
    THEN LET adopted == [this EXCEPT !.streamId = args[2], !.formatId = 0,
                                      !.sequence = 0]
             added == addSink(adopted, rinfo[1], rinfo[2], InviteSinkId)
             replied == StartEachActive(added, 1)
         IN  IF replied.thrown THEN replied ELSE start(replied)
    ELSE this

\* the body of the try block; a throw of _sendStartOSC skips start()
handleInvite(this, rinfo, args) ==
    IF Len(args) >= 2
    THEN LET adopted == [this EXCEPT !.streamId = args[2], !.formatId = 0,
                                      !.sequence = 0]
             added == addSink(adopted, rinfo[1], rinfo[2], InviteSinkId)
             replied == sendStartOSC(added, rinfo[1], rinfo[2], InviteSinkId)
         IN  IF replied.thrown THEN replied ELSE start(replied)
    ELSE this

\* the sink's version is stored inside try/catch; the registration and the
\* reply come after it
handleStart(this, rinfo, parsed) ==
    LET learned == IF ~parsed.thrown /\ Len(parsed.args) >= 2
                   THEN [this EXCEPT !.sinkVersion = parsed.args[2]]
                   ELSE this
        added == IF HasSink(learned, SinkKey(rinfo[1], rinfo[2], InviteSinkId))
                 THEN learned
                 ELSE addSink(learned, rinfo[1], rinfo[2], InviteSinkId)
    IN  sendStartOSC(added, rinfo[1], rinfo[2], InviteSinkId)

\* a dispatcher that does not look at the binary-domain bit
RouteOf_NoBinary(msg) ==
    LET nullIdx == IndexOfZero(msg, 0)
        address == toAscii(msg, 0, nullIdx)
    IN  IF nullIdx <= 0 THEN "none"
        ELSE IF Includes(address, InvitePart) THEN "invite"
        ELSE IF Includes(address, StartPart) THEN "start"
        ELSE IF Includes(address, PingPart) THEN "ping"
        ELSE "none"

\* which branch of _handleMessage a datagram takes
RouteOf(msg) ==
    LET nullIdx == IndexOfZero(msg, 0)
        address == toAscii(msg, 0, nullIdx)
    IN  IF Len(msg) >= 4 /\ At(msg, 0) >= kAooBinMsgDomainBit THEN "binary"
        ELSE IF nullIdx <= 0 THEN "none"
        ELSE IF Includes(address, InvitePart) THEN "invite"
        ELSE IF Includes(address, StartPart) THEN "start"
        ELSE IF Includes(address, PingPart) THEN "ping"
        ELSE "none"

\* what _parseOscArgs makes of the datagram in that branch
ParsedOf(msg) ==
    IF RouteOf(msg) \in {"invite", "start", "ping"}
    THEN parseOscArgs(msg, IndexOfZero(msg, 0))
    ELSE [thrown |-> FALSE, args |-> << >>]

\* both, computed once for every datagram of the model
RouteTable == [msg \in Datagrams |-> RouteOf(msg)]
ParsedTable == [msg \in Datagrams |-> ParsedOf(msg)]
Route(msg) == RouteTable[msg]
Parsed(msg) == ParsedTable[msg]

handleMessage(this, msg, rinfo, now) ==
    CASE Route(msg) = "invite" ->
            IF Parsed(msg).thrown THEN this
            ELSE Caught(handleInvite(this, rinfo, Parsed(msg).args))
      [] Route(msg) = "start" -> handleStart(this, rinfo, Parsed(msg))
      [] Route(msg) = "ping" ->
            sendPong(this, rinfo[1], rinfo[2], Parsed(msg), now)
      [] OTHER -> this


\* ------------------------------------------------------------- the machine
\* new AooSource(options): `options.x || default` for every option, no check
construct(options) ==
    [ channels |-> IF Truthy(options.channels) THEN options.channels.num
                   ELSE DefaultChannels,
      sampleRate |-> DefaultSampleRate,
      blockSize |-> IF Truthy(options.blockSize) THEN options.blockSize.num
                    ELSE DefaultBlockSize,
      sourceId |-> DefaultSourceId, sinks |-> << >>, sequence |-> 0,
      isStreaming |-> FALSE, formatId |-> 0,
      sinkVersion |-> JsString(DefaultVersion), startSent |-> FALSE,
      sampleBuffer |-> << >>, socket |-> "open", thrown |-> FALSE ]

\* no codec call was made on its own
NoCodec == [step |-> "none"]
\* what the history variables remember of the state a call saw
Snapshot ==
    [ isStreaming |-> isStreaming, startSent |-> startSent,
      sampleRate |-> sampleRate, formatId |-> formatId, sequence |-> sequence,
      buffered |-> Len(sampleBuffer), pending |-> pending ]

Call(name, k, rate, peer, sinkId, args) ==
    [ name |-> name, k |-> k, rate |-> rate, peer |-> peer, sinkId |-> sinkId,
      args |-> args, msg |-> << >>, now |-> 0 ]

\* the name under which the history records a datagram of each branch
InboundName ==
    [invite |-> "invite", start |-> "acknowledge", ping |-> "ping",
     binary |-> "ignore", none |-> "ignore"]

\* a datagram handed to _handleMessage: its branch and its decoded arguments
Received(msg, peer, now) ==
    [ Call(InboundName[Route(msg)], 0, 0, peer, InviteSinkId, Parsed(msg).args)
        EXCEPT !.msg = msg, !.now = now ]

\* the last updateSampleRate made before the announcement and not yet followed by
\* the announcing sendAudio: its rate, the formatId it left, and whether an
\* /invite was accepted since
NoPending == [rate |-> 0, formatId |-> 0, invited |-> FALSE]

\* isStreaming goes false -> true in this call
Restarts(t) == ~isStreaming /\ t.isStreaming
\* an /invite with at least two decoded arguments
Accepted(o) == o.name = "invite" /\ Len(o.args) >= 2

Payloads(bs) == Flatten([i \in 1..Len(bs) |-> bs[i].payload])

\* the object after the call becomes the state; the history is extended
Apply(t, o) ==
    /\ channels' = t.channels /\ sampleRate' = t.sampleRate
    /\ blockSize' = t.blockSize /\ sourceId' = t.sourceId
    /\ sinks' = t.sinks /\ sequence' = t.sequence /\ streamId' = t.streamId
    /\ isStreaming' = t.isStreaming /\ formatId' = t.formatId
    /\ sinkVersion' = t.sinkVersion /\ startSent' = t.startSent
    /\ sampleBuffer' = t.sampleBuffer /\ socket' = t.socket
    /\ emitted' = t.emitted
    /\ sent' = t.sent /\ blocks' = t.blocks /\ threw' = t.thrown
    /\ op' = o /\ pre' = Snapshot /\ codec' = codec
    /\ frameSeqs' = (IF Restarts(t) \/ Accepted(o) THEN << >> ELSE frameSeqs)
                        \o [i \in 1..Len(t.blocks) |-> t.blocks[i].sequence]
    /\ framed' = (IF Restarts(t) THEN << >> ELSE framed) \o Payloads(t.blocks)
    /\ npushed' = IF Restarts(t) THEN 0
                  ELSE IF o.name = "sendAudio" /\ isStreaming THEN npushed + 2 * o.k
                  ELSE npushed
    /\ audioCalls' = IF Restarts(t) THEN 0
                     ELSE IF o.name = "sendAudio" /\ isStreaming
                          THEN (IF audioCalls = 0 THEN 1 ELSE 2)
                     ELSE audioCalls
    /\ pending' = IF o.name = "updateSampleRate" /\ ~startSent
                  THEN [rate |-> o.rate, formatId |-> t.formatId, invited |-> FALSE]
                  ELSE IF o.name = "sendAudio" /\ isStreaming /\ ~startSent
                  THEN NoPending
                  ELSE IF Accepted(o) /\ pending # NoPending
                  THEN [pending EXCEPT !.invited = TRUE]
                  ELSE pending

\* a call that runs from its first statement to its last in one step
Commit(t, o) == Apply(t, o) /\ UNCHANGED << pc, started >>

Init ==
    /\ channels \in ConfigChannels
    /\ blockSize \in ConfigBlockSizes
    /\ sampleRate = DefaultSampleRate
    /\ sourceId = DefaultSourceId
    /\ sinks = << >>
    /\ sequence = 0
    /\ streamId \in { JsNumber(s) : s \in InitStreamIds }
    /\ isStreaming = FALSE
    /\ formatId = 0
    /\ sinkVersion = JsString(DefaultVersion)
    /\ startSent = FALSE
    /\ sampleBuffer = << >>
    /\ sent = << >> /\ blocks = << >> /\ threw = FALSE
    /\ op = Call("new", 0, 0, << >>, 0, << >>)
    /\ pre = [ isStreaming |-> FALSE, startSent |-> FALSE,
               sampleRate |-> DefaultSampleRate, formatId |-> 0, sequence |-> 0,
               buffered |-> 0, pending |-> NoPending ]
    /\ frameSeqs = << >> /\ framed = << >> /\ npushed = 0 /\ audioCalls = 0
    /\ pending = NoPending
    /\ codec = NoCodec
    /\ socket = "open" /\ emitted = << >> /\ pc = "idle" /\ started = {}

AddSink ==
    \E peer \in Peers, id \in SinkIds :
        Commit(addSink(This, peer[1], peer[2], id),
               Call("addSink", 0, 0, peer, id, << >>))

Start == Commit(start(This), Call("start", 0, 0, << >>, 0, << >>))

Stop == Commit(stop(This), Call("stop", 0, 0, << >>, 0, << >>))

UpdateSampleRate ==
    \E rate \in Rates :
        LET t == updateSampleRate(This, rate)
        IN  /\ t.formatId <= MaxFormatId
            /\ Commit(t, Call("updateSampleRate", 0, rate, << >>, 0, << >>))

\* the caller's arrays: k pairs, tagged in the order (L0, R0, L1, R1, ...)
LeftInput(k) == [i \in 1..k |-> npushed + 2 * i - 1]
RightInput(k) == [i \in 1..k |-> npushed + 2 * i]

SendAudio ==
    \E k \in 0..MaxK, rate \in {0} \cup Rates :
        LET t == sendAudio(This, LeftInput(k), RightInput(k), rate)
        IN  /\ isStreaming => npushed + 2 * k <= MaxPushed
            /\ t.formatId <= MaxFormatId
            /\ Commit(t, Call("sendAudio", k, rate, << >>, 0, << >>))

\* _handleMessage(msg, rinfo) for the datagrams of from
Handle(from) ==
    \E peer \in Peers, msg \in from, now \in Clock :
        Commit(handleMessage(This, msg, peer, now), Received(msg, peer, now))

HandleInvite == Handle(InviteDatagrams)

Next ==
    \/ AddSink
    \/ Start
    \/ Stop
    \/ UpdateSampleRate
    \/ SendAudio
    \/ HandleInvite

Spec == Init /\ [][Next]_vars

\* the whole inbound side with short audio calls: a sink that follows the
\* protocol invites, acknowledges and pings at any moment of the session
SendAudioBrief ==
    \E k \in 0..MaxBriefK, rate \in {0} \cup Rates :
        LET t == sendAudio(This, LeftInput(k), RightInput(k), rate)
        IN  /\ isStreaming => npushed + 2 * k <= MaxBriefPushed
            /\ t.formatId <= MaxFormatId
            /\ Commit(t, Call("sendAudio", k, rate, << >>, 0, << >>))

RemoveSink ==
    \E peer \in Peers :
        Commit(removeSink(This, peer[1], peer[2]),
               Call("removeSink", 0, 0, peer, 0, << >>))

HandleStart == Handle(StartDatagrams)

HandlePing == Handle(PingDatagrams)

NextInbound ==
    \/ AddSink
    \/ Start
    \/ Stop
    \/ UpdateSampleRate
    \/ SendAudioBrief
    \/ HandleInvite
    \/ HandleStart
    \/ HandlePing
    \/ RemoveSink

SpecInbound == Init /\ [][NextInbound]_vars

\* the codec on its own: a message is encoded and decoded again, and the frame
\* of one block is built for a configuration
CodecValues ==
    [ i |-> {JsNumber(-5), JsNumber(7)},
      s |-> {JsString(<< >>), JsString(CodecName)},
      b |-> {JsBuffer(<< >>), JsBuffer(<< 1, 2, 3 >>)},
      t |-> {JsBigInt(0), JsBigInt(123456)},
      N |-> {JsNull}, T |-> {JsBoolean(TRUE)}, F |-> {JsBoolean(FALSE)} ]
CodecArgs ==
    UNION { {Arg(type, v) : v \in CodecValues[type]} : type \in DOMAIN CodecValues }
CodecAddresses == { PingPart, StartAddress }
ArgLists == UNION { [1..n -> CodecArgs] : n \in 0..MaxArgs }
FrameConfigs ==
    { [blockSize |-> b, channels |-> c] :
          b \in {2, 256, 4096, 8192, 16383}, c \in {1, 2} }

Encode ==
    /\ \E address \in CodecAddresses, args \in ArgLists :
           codec' = [ step |-> "encoded", address |-> address, args |-> args,
                      thrown |-> buildOSCMessageThrows(args),
                      bytes |-> buildOSCMessage(address, args) ]
    /\ UNCHANGED << obj, sent, blocks, threw, op, pre, frameSeqs, framed, npushed,
                    audioCalls, pending, emitted, pc, started >>

\* nullIdx = msg.indexOf(0); msg.toString('ascii', 0, nullIdx); _parseOscArgs
Decode ==
    /\ codec.step = "encoded" /\ ~codec.thrown
    /\ LET nullIdx == IndexOfZero(codec.bytes, 0)
       IN  codec' = [ step |-> "decoded", address |-> codec.address,
                      args |-> codec.args,
                      decodedAddress |-> toAscii(codec.bytes, 0, nullIdx),
                      decoded |-> parseOscArgs(codec.bytes, nullIdx) ]
    /\ UNCHANGED << obj, sent, blocks, threw, op, pre, frameSeqs, framed, npushed,
                    audioCalls, pending, emitted, pc, started >>

\* _sendBlock(splice(0, blockSize * channels)) -> _buildDataMessage(sink, audioBytes)
BuildFrame ==
    /\ \E config \in FrameConfigs, entry \in { [host |-> p[1], port |-> p[2],
                                                sinkId |-> id, active |-> TRUE] :
                                                  p \in Peers, id \in {1, 300} } :
           LET this == [This EXCEPT !.blockSize = config.blockSize,
                                    !.channels = config.channels]
               audioLength == this.blockSize * this.channels * 4
           IN  codec' = [ step |-> "frame", config |-> config, sink |-> entry,
                          audioLength |-> audioLength,
                          thrown |-> buildDataMessageThrows(this, audioLength),
                          header |-> buildDataHeader(this, entry, audioLength) ]
    /\ UNCHANGED << obj, sent, blocks, threw, op, pre, frameSeqs, framed, npushed,
                    audioCalls, pending, emitted, pc, started >>

\* the encoded message lost its last bytes on the way, for the tags the decoder
\* reads: nullIdx = msg.indexOf(0); _parseOscArgs(msg, nullIdx)
DecodeCut ==
    /\ codec.step = "encoded" /\ ~codec.thrown
    /\ \A i \in 1..Len(codec.args) : codec.args[i].type # "t"
    /\ \E cut \in 1..3 :
           LET bytes == SubSeq(codec.bytes, 1, Len(codec.bytes) - cut)
           IN  codec' = [ step |-> "cut", address |-> codec.address,
                          args |-> codec.args, whole |-> codec.bytes,
                          bytes |-> bytes,
                          decoded |-> parseOscArgs(bytes, IndexOfZero(bytes, 0)) ]
    /\ UNCHANGED << obj, sent, blocks, threw, op, pre, frameSeqs, framed, npushed,
                    audioCalls, pending, emitted, pc, started >>

NextCodec ==
    \/ Encode
    \/ Decode
    \/ BuildFrame
    \/ DecodeCut

SpecCodec == Init /\ [][NextCodec]_vars

\* the same with a peer that sends whatever it likes
HandleAny == Handle(AnyDatagrams \cup IgnoredDatagrams)

NextAny ==
    \/ Start
    \/ Stop
    \/ UpdateSampleRate
    \/ SendAudioBrief
    \/ HandleAny

SpecAny == Init /\ [][NextAny]_vars

\* the life of a source up to and after close(); a closed socket delivers no
\* datagram, so no handler runs after it
Close == Commit(close(This), Call("close", 0, 0, << >>, 0, << >>))

HandleOpen == socket = "open" /\ Handle(InviteDatagrams)

\* sendAudio(mono) and sendAudio(left, right): n arrays of k samples, tagged in
\* the order (a1[0], .., an[0], a1[1], ..)
SendArrays ==
    \E n \in 1..2, k \in 0..MaxBriefK :
        LET arrays == [c \in 1..n |-> [i \in 1..k |-> npushed + (i - 1) * n + c]]
        IN  /\ isStreaming => npushed + 2 * k <= MaxBriefPushed
            /\ Commit(sendAudioOf(This, arrays, 0),
                      Call("sendAudio", k, 0, << >>, 0, arrays))

NextClose ==
    \/ AddSink
    \/ Start
    \/ Stop
    \/ SendArrays
    \/ HandleOpen
    \/ Close

SpecClose == Init /\ [][NextClose]_vars

\* a stream that is SeqWrap - 2 blocks under way with nobody registered: the
\* session as start() and that many emitted blocks leave it, the history kept
\* from here on
InitWrap ==
    /\ channels \in ConfigChannels /\ blockSize \in ConfigBlockSizes
    /\ sampleRate = DefaultSampleRate /\ sourceId = DefaultSourceId
    /\ sinks = << >> /\ sequence = SeqWrap - 2
    /\ streamId \in { JsNumber(s) : s \in InitStreamIds }
    /\ isStreaming = TRUE /\ formatId = 0
    /\ sinkVersion = JsString(DefaultVersion)
    /\ startSent = TRUE /\ sampleBuffer = << >> /\ socket = "open"
    /\ sent = << >> /\ blocks = << >> /\ threw = FALSE
    /\ op = Call("sendAudio", 0, 0, << >>, 0, << >>)
    /\ pre = [ isStreaming |-> TRUE, startSent |-> TRUE,
               sampleRate |-> DefaultSampleRate, formatId |-> 0,
               sequence |-> SeqWrap - 2, buffered |-> 0, pending |-> NoPending ]
    /\ frameSeqs = << >> /\ framed = << >> /\ npushed = 0 /\ audioCalls = 2
    /\ pending = NoPending /\ codec = NoCodec
    /\ emitted = << >> /\ pc = "idle" /\ started = {}

NextWrap ==
    \/ AddSink
    \/ Start
    \/ Stop
    \/ SendAudio
    \/ HandleInvite

SpecWrap == InitWrap /\ [][NextWrap]_vars

\* the session with a record of every /start that went out: to whom, and of
\* which stream
Heard(s) ==
    { << s[i].host, s[i].port, s[i].sinkId, s[i].streamId >> :
          i \in { j \in 1..Len(s) : s[j].kind = "start" } }

Tracked(t, o) == Apply(t, o) /\ pc' = pc /\ started' = started \cup Heard(t.sent)

NextTrack ==
    \/ \E peer \in Peers, id \in SinkIds :
           Tracked(addSink(This, peer[1], peer[2], id),
                   Call("addSink", 0, 0, peer, id, << >>))
    \/ Tracked(start(This), Call("start", 0, 0, << >>, 0, << >>))
    \/ Tracked(stop(This), Call("stop", 0, 0, << >>, 0, << >>))
    \/ \E k \in 0..MaxBriefK :
           /\ isStreaming => npushed + 2 * k <= MaxBriefPushed
           /\ Tracked(sendAudio(This, LeftInput(k), RightInput(k), 0),
                      Call("sendAudio", k, 0, << >>, 0, << >>))
    \/ \E peer \in Peers, msg \in InviteDatagrams, now \in Clock :
           Tracked(handleMessage(This, msg, peer, now), Received(msg, peer, now))

SpecTrack == Init /\ [][NextTrack]_vars

\* a source built from any options, with sendAudio run one loop iteration at a
\* time: the calls of a program do not overlap, so a call starts only when the
\* one before it has returned
OptionValues == { JsUndefined, JsNumber(0), JsNumber(-1), JsNumber(1), JsNumber(2) }
Options == [ channels : OptionValues, blockSize : OptionValues ]

InitOptions ==
    \E options \in Options, s \in InitStreamIds :
        LET t == construct(options)
        IN  /\ channels = t.channels /\ blockSize = t.blockSize
            /\ sampleRate = t.sampleRate /\ sourceId = t.sourceId
            /\ sinks = t.sinks /\ sequence = t.sequence /\ streamId = JsNumber(s)
            /\ isStreaming = t.isStreaming /\ formatId = t.formatId
            /\ sinkVersion = t.sinkVersion /\ startSent = t.startSent
            /\ sampleBuffer = t.sampleBuffer /\ socket = t.socket
            /\ sent = << >> /\ blocks = << >> /\ threw = t.thrown
            /\ op = Call("new", 0, 0, << >>, 0,
                         << options.channels, options.blockSize >>)
            /\ pre = [ isStreaming |-> FALSE, startSent |-> FALSE,
                       sampleRate |-> DefaultSampleRate, formatId |-> 0,
                       sequence |-> 0, buffered |-> 0, pending |-> NoPending ]
            /\ frameSeqs = << >> /\ framed = << >> /\ npushed = 0
            /\ audioCalls = 0 /\ pending = NoPending /\ codec = NoCodec
            /\ emitted = << >> /\ pc = "idle" /\ started = {}

AddSinkIdle == pc = "idle" /\ AddSink

StartIdle == pc = "idle" /\ Start

\* lines 237-255: the guard, the first /start and the pushes
BeginAudio ==
    /\ pc = "idle"
    /\ \E k \in 0..MaxBriefK :
           LET t == IF isStreaming
                    THEN pushAudio(This, LeftInput(k), RightInput(k), 0)
                    ELSE This
           IN  /\ isStreaming => npushed + 2 * k <= MaxBriefPushed
               /\ Apply(t, Call("sendAudio", k, 0, << >>, 0, << >>))
               /\ pc' = IF isStreaming /\ ~t.thrown THEN "drain" ELSE "idle"
               /\ started' = started

\* one iteration of the while loop: splice(0, samplesPerBlock), which removes
\* nothing when samplesPerBlock is negative, and _sendBlock
DrainStep ==
    /\ pc = "drain"
    /\ Len(sampleBuffer) >= blockSize * channels
    /\ sequence < MaxDrain
    /\ LET n == IF blockSize * channels < 0 THEN 0 ELSE blockSize * channels
           t == sendBlock([This EXCEPT !.sampleBuffer = SubSeq(@, n + 1, Len(@))],
                          SubSeq(sampleBuffer, 1, n))
       IN  /\ Apply(t, [op EXCEPT !.name = "drain"])
           /\ pc' = IF t.thrown THEN "idle" ELSE "drain"
           /\ started' = started

\* the loop condition fails: sendAudio returns
Return ==
    /\ pc = "drain"
    /\ Len(sampleBuffer) < blockSize * channels
    /\ pc' = "idle"
    /\ UNCHANGED << obj, sent, blocks, threw, op, pre, frameSeqs, framed, npushed,
                    audioCalls, pending, codec, emitted, started >>

NextConfig ==
    \/ AddSinkIdle
    \/ StartIdle
    \/ BeginAudio
    \/ DrainStep
    \/ Return

\* the loop is synchronous: while its condition holds the next iteration runs,
\* and when it fails the call returns
SpecConfig ==
    InitOptions /\ [][NextConfig]_vars /\ WF_vars(DrainStep) /\ WF_vars(Return)


\* ------------------------------------------------------- reading the wire
StartsOf(s) == SelectSeq(s, LAMBDA d : d.kind = "start")
DataOf(s) == SelectSeq(s, LAMBDA d : d.kind = "data")
ActiveSinks == SelectSeq(sinks, LAMBDA sink : sink.active)
To(d, sink) == d.host = sink.host /\ d.port = sink.port /\ d.sinkId = sink.sinkId
\* the datagrams of s addressed to the registry entry sink
ToSink(s, sink) == SelectSeq(s, LAMBDA d : To(d, sink))
\* one /start per active sink, in registry order, and nothing else in s
OneStartPerActiveSink(s) ==
    /\ Len(s) = Len(ActiveSinks)
    /\ \A i \in 1..Len(s) : s[i].kind = "start" /\ To(s[i], ActiveSinks[i])

\* ------------------------------------------------------------------ claims

\* C1: the frames emitted between two consecutive resets (a start() that turns
\* isStreaming from false to true, or an accepted /invite) carry the sequence
\* numbers 0, 1, 2, ... in emission order, without gap or repeat, and every
\* datagram of a frame carries the number of its frame.
C1_SequenceNumbers ==
    /\ \A i \in 1..Len(frameSeqs) : frameSeqs[i] = (i - 1) % SeqWrap
    /\ Len(DataOf(sent)) = Len(blocks) * Len(sinks)
    /\ \A j \in 1..Len(DataOf(sent)) :
           DataOf(sent)[j].sequence = blocks[((j - 1) \div Len(sinks)) + 1].sequence

\* frames were emitted, an accepted /invite reset the numbering in mid-stream,
\* and frames 0 and 1 were emitted to two sinks after it
C1_Witness ==
    /\ frameSeqs = << 0, 1 >>
    /\ Len(framed) > 2 * blockSize * channels
    /\ Len(sinks) = 2
    /\ Len(blocks) = 1

\* C2: the first sendAudio call of a streaming session sends exactly one /start to
\* every active sink, all before its first audio frame; every later sendAudio call
\* of the session sends no /start.
C2_StartOncePerSession ==
    (op.name = "sendAudio" /\ pre.isStreaming) =>
        IF audioCalls = 1
        THEN /\ OneStartPerActiveSink(StartsOf(sent))
             /\ \A i, j \in 1..Len(sent) :
                    (sent[i].kind = "start" /\ sent[j].kind = "data") => i < j
        ELSE StartsOf(sent) = << >>

\* a later call of a session with two sinks that emits a frame
C2_Witness ==
    /\ op.name = "sendAudio" /\ pre.isStreaming /\ audioCalls = 2
    /\ Len(sinks) = 2 /\ Len(blocks) >= 1


\* C3: a sendAudio call of k sample pairs on a streaming source with an empty
\* buffer emits floor(k / blockSize) frames and leaves (k mod blockSize) * channels
\* samples; after every sendAudio call fewer than blockSize * channels remain.
C3_BufferingExactness ==
    op.name = "sendAudio" =>
        /\ Len(sampleBuffer) < blockSize * channels
        /\ (pre.isStreaming /\ pre.buffered = 0) =>
               /\ Len(blocks) = op.k \div blockSize
               /\ Len(sampleBuffer) = (op.k % blockSize) * channels

\* C4: frames are cut from the buffer first in, first out: the payloads of the
\* frames emitted since the last buffer clear, followed by the buffer, are the
\* samples pushed since that clear in push order (L0, R0, L1, R1, ...), and every
\* sink is sent the frames of a call in the order they were cut.
C4_Fifo ==
    /\ framed \o sampleBuffer = [i \in 1..npushed |-> i]
    /\ \A s \in 1..Len(sinks) :
           LET got == ToSink(DataOf(sent), sinks[s])
           IN  /\ Len(got) = Len(blocks)
               /\ \A j \in 1..Len(got) : got[j].payload = blocks[j].payload

\* two frames cut in one call for two sinks, after an earlier frame
C4_Witness ==
    /\ Len(blocks) = 2 /\ Len(framed) > Len(Payloads(blocks))
    /\ Len(sinks) = 2

C6_StopSendsStop ==
    op.name = "stop" =>
        \A s \in 1..Len(sinks) :
            \E j \in 1..Len(sent) : sent[j].kind = "stop" /\ To(sent[j], sinks[s])

\* C7: stop() clears isStreaming and changes nothing else; what start() resets
\* (buffer, announced flag, sequence) and the stream identity stay as they are for
\* as long as the session stays stopped, formatId is not reset and no sink leaves.
C7_StopEffect ==
    [][/\ op'.name = "stop" =>
              /\ ~isStreaming'
              /\ UNCHANGED << channels, sampleRate, blockSize, sourceId, sinks,
                              sequence, streamId, formatId, sinkVersion, startSent,
                              sampleBuffer >>
       /\ (~isStreaming /\ ~isStreaming') =>
              /\ UNCHANGED << sampleBuffer, startSent, sequence, streamId >>
              /\ formatId' >= formatId
              /\ Len(sinks') >= Len(sinks)]_vars

\* stop() was called on an announced session with samples buffered
C7_Witness ==
    /\ op.name = "stop" /\ pre.isStreaming /\ ~isStreaming
    /\ startSent /\ Len(sampleBuffer) > 0 /\ sequence > 0 /\ formatId > 0

\* C8: sendAudio on a session that is not streaming sends nothing, buffers nothing
\* and changes no field; audio frames are only emitted from a streaming state.
C8_SendAudioWhenStopped ==
    [][/\ (op'.name = "sendAudio" /\ ~isStreaming) =>
              UNCHANGED obj /\ sent' = << >> /\ blocks' = << >>
       /\ (DataOf(sent') # << >> \/ blocks' # << >>) => isStreaming]_vars

\* sendAudio with samples was called on a stopped, announced session with sinks
C8_Witness ==
    /\ op.name = "sendAudio" /\ op.k = MaxK /\ ~pre.isStreaming /\ pre.startSent
    /\ pre.buffered > 0 /\ Len(sinks) > 0


\* C9: updateSampleRate with the current rate changes nothing and sends nothing, in
\* every state; with another rate, once /start was announced, it adds exactly 1 to
\* formatId and sends exactly one /start to each active sink, each carrying the new
\* formatId and the new rate.
C9_UpdateSampleRate ==
    [][op'.name = "updateSampleRate" =>
          IF op'.rate = sampleRate
          THEN UNCHANGED obj /\ sent' = << >>
          ELSE startSent =>
                   /\ formatId' = formatId + 1
                   /\ sampleRate' = op'.rate
                   /\ UNCHANGED sinks
                   /\ sent' = StartsOf(sent')
                   /\ OneStartPerActiveSink(sent')
                   /\ \A i \in 1..Len(sent') :
                          /\ sent'[i].formatId = formatId + 1
                          /\ sent'[i].sampleRate = op'.rate]_vars

\* a new rate was set on an announced session with two sinks
C9_Witness ==
    /\ op.name = "updateSampleRate" /\ pre.startSent /\ pre.isStreaming
    /\ op.rate # pre.sampleRate /\ Len(sinks) = 2 /\ Len(sent) = 2
    /\ formatId = 2

\* what updateSampleRate does before the announcement
SilentUpdate ==
    (op'.name = "updateSampleRate" /\ ~startSent) =>
        /\ sent' = << >>
        /\ sampleRate' = op'.rate
        /\ formatId' = formatId + (IF op'.rate # sampleRate THEN 1 ELSE 0)
        /\ UNCHANGED << channels, blockSize, sourceId, sinks, sequence, streamId,
                        isStreaming, sinkVersion, startSent, sampleBuffer >>

\* the sendAudio call that announces carries the pending update in its /start
CarriesPending ==
    \A i \in 1..Len(sent') :
        sent'[i].kind = "start" =>
            /\ sent'[i].sampleRate = pending.rate
            /\ sent'[i].formatId = pending.formatId

From(o) == SinkKey(o.peer[1], o.peer[2], InviteSinkId)
\* every session field a handler may touch, and the registry
Session == << sinks, sequence, streamId, isStreaming, formatId, sinkVersion,
              startSent, sampleBuffer >>

\* C11: after an /invite with at least two decoded arguments, in any session
\* state, the registry holds (host, port, 1) of the sender, streamId is arg[1],
\* sequence and formatId are 0, isStreaming is true and exactly one datagram was
\* sent: a /start addressed to the sender.
C11_InviteEffect ==
    Accepted(op) =>
        /\ \E i \in 1..Len(sinks) : KeyOf(sinks[i]) = From(op)
        /\ streamId = op.args[2]
        /\ sequence = 0 /\ formatId = 0 /\ isStreaming
        /\ Len(sent) = 1 /\ sent[1].kind = "start"
        /\ sent[1].host = op.peer[1] /\ sent[1].port = op.peer[2]

\* C12: an inbound /start registers its sender as sink 1 unless it is registered
\* (the registry is otherwise untouched), sends exactly one /start back to the
\* sender, makes arg[1] the version when two arguments were decoded and keeps the
\* version otherwise, and leaves isStreaming, sequence, streamId, formatId, the
\* buffer and the announced flag alone; every /start sent carries the version
\* the source holds.
C12_InboundStart ==
    /\ [](\A i \in 1..Len(sent) :
            sent[i].kind = "start" => sent[i].version = sinkVersion.str)
    /\ [][op'.name = "acknowledge" =>
            /\ sinks' = IF HasSink(This, From(op')) THEN sinks
                        ELSE Append(sinks, [host |-> op'.peer[1], port |-> op'.peer[2],
                                            sinkId |-> InviteSinkId, active |-> TRUE])
            /\ Len(sent') = 1 /\ sent'[1].kind = "start"
            /\ sent'[1].host = op'.peer[1] /\ sent'[1].port = op'.peer[2]
            /\ sinkVersion' = IF Len(op'.args) >= 2 THEN op'.args[2] ELSE sinkVersion
            /\ UNCHANGED << isStreaming, sequence, streamId, formatId, sampleBuffer,
                            startSent >>]_vars

\* a /ping that carries the sink ID and a time-tag of the given OSC type
PingWith(type, value) ==
    buildOSCMessage(PingAddress, << SinkIdArg, Arg(type, value) >>)
\* the /pong that answers a ping of time-tag t received at time now
PongFor(o, t) ==
    [ kind |-> "pong", host |-> o.peer[1], port |-> o.peer[2],
      address |-> SinkPrefix \o Decimal(InviteSinkId) \o PongPart,
      sourceId |-> sourceId, tt1 |-> t, tt2 |-> o.now * NanosPerMilli ]

\* C13: a /ping that carries a sink ID and a time-tag is answered with exactly one
\* /pong to the sender, at /aoo/sink/<sink ID>/pong, with the source ID, the
\* time-tag of the ping and the current time; a /ping with fewer than two
\* arguments is not answered; neither changes the session or the registry.
C13_PingPong ==
    [][op'.name = "ping" =>
          /\ UNCHANGED Session
          /\ \A t \in PingTimes :
                op'.msg \in {PingWith("t", JsBigInt(t)), PingWith("i", JsNumber(t))}
                    => sent' = << PongFor(op', t) >>
          /\ op'.msg = buildOSCMessage(PingAddress, << SinkIdArg >>) => sent' = << >>
      ]_vars

\* C14: for every inbound datagram and every session state _handleMessage
\* returns normally: no exception leaves it.
C14_HandlerReturns ==
    op.name \in {"invite", "acknowledge", "ping", "ignore"} => ~threw

\* C15: no call of start, stop, sendAudio or updateSampleRate throws, whatever
\* calls were made and whatever datagrams were handled before.
C15_PublicCallsReturn ==
    op.name \in {"start", "stop", "sendAudio", "updateSampleRate"} => ~threw

\* the decoded value is the argument that was encoded
Same(v, arg) ==
    IF arg.type \in {"i", "t"}
    THEN v.js \in {"number", "bigint"} /\ v.num = arg.value.num
    ELSE v = arg.value

\* C16: decoding an encoded message gives back the address and as many arguments
\* as were encoded, with the same values in the same order, for every argument
\* list over the tags i, s, b, t, N, T and F.
C16_RoundTrip ==
    codec.step = "decoded" =>
        /\ ~codec.decoded.thrown
        /\ codec.decodedAddress = codec.address
        /\ Len(codec.decoded.args) = Len(codec.args)
        /\ \A i \in 1..Len(codec.args) : Same(codec.decoded.args[i], codec.args[i])

C18_FormatIdMonotone ==
    /\ formatId < pre.formatId => Accepted(op) /\ formatId = 0
    /\ formatId > pre.formatId =>
           formatId = pre.formatId + 1 /\ sampleRate # pre.sampleRate

\* an accepted /invite resets a formatId that two rate changes had raised to 2
C18_Witness ==
    Accepted(op) /\ pre.formatId = 2 /\ formatId = 0 /\ pre.sampleRate = DefaultSampleRate

\* C19: in every reachable state streamId is an integer in [0, 0x7FFFFFFF].
C19_StreamIdRange ==
    streamId.js = "number" /\ streamId.num >= 0 /\ streamId.num <= Int32Max

\* the registry has an entry for this host and port
Registered(reg, host, port) ==
    \E i \in 1..Len(reg) : reg[i].host = host /\ reg[i].port = port

\* C20: removeSink(host, port) returns with no entry for (host, port) left in the
\* registry; a /start or an audio frame is only ever sent to a registered sink,
\* so none goes to a removed one; and no other call removes a registry entry.
C20_RemoveSink ==
    /\ [](op.name = "removeSink" =>
             ~threw /\ ~Registered(sinks, op.peer[1], op.peer[2]))
    /\ [](\A i \in 1..Len(sent) :
             sent[i].kind \in {"start", "data"} =>
                 Registered(sinks, sent[i].host, sent[i].port))
    /\ [][op'.name # "removeSink" =>
             \A i \in 1..Len(sinks) : \E j \in 1..Len(sinks') : sinks'[j] = sinks[i]]_vars

\* C21: a second close() on a closed source does not throw and leaves the
\* state as the first close() left it.
C21_CloseIdempotent ==
    [][(op'.name = "close" /\ socket = "closed") => (~threw' /\ UNCHANGED obj)]_vars

\* C22: whenever an /invite is accepted, the call hands its listeners an
\* 'invite' event with the host, the port and the sink ID of the sender.
C22_InviteEvent ==
    Accepted(op) =>
        \E i \in 1..Len(emitted) :
            emitted[i] = [ event |-> "invite", host |-> op.peer[1],
                           port |-> op.peer[2], sinkId |-> InviteSinkId ]

\* C23: construction with a non-positive blockSize or channels fails at
\* construction time, and no source has blockSize <= 0 or channels <= 0.
C23_ValidConfiguration ==
    /\ blockSize > 0 /\ channels > 0
    /\ op.name = "new" =>
           ((\E i \in 1..2 : op.args[i].js = "number" /\ op.args[i].num <= 0)
                => threw)

\* the samples of the arrays in round-robin channel order
RoundRobin(arrays) ==
    [j \in 1..(Len(arrays) * Len(arrays[1])) |->
        arrays[((j - 1) % Len(arrays)) + 1][((j - 1) \div Len(arrays)) + 1]]

\* C24: sendAudio called on a streaming source with one array of k samples per
\* configured channel returns after appending exactly those k * channels samples
\* in round-robin channel order (a mono source takes sendAudio(monoData)), and
\* every frame it emits holds blockSize * channels samples.
C24_ArrayPerChannel ==
    (op.name = "sendAudio" /\ pre.isStreaming /\ socket = "open"
        /\ Len(op.args) = channels) =>
        /\ ~threw
        /\ LET all == Payloads(blocks) \o sampleBuffer
           IN  SubSeq(all, pre.buffered + 1, Len(all)) = RoundRobin(op.args)
        /\ \A i \in 1..Len(blocks) : Len(blocks[i].payload) = blockSize * channels

\* C25: every sendAudio call returns: each iteration of the drain loop shortens
\* the sample buffer, and the loop ends once less than blockSize * channels
\* samples remain.
C25_SendAudioTerminates ==
    /\ [][(pc = "drain" /\ op'.name = "drain" /\ sequence' # sequence)
            => Len(sampleBuffer') < Len(sampleBuffer)]_vars
    /\ (pc = "drain") ~> (pc = "idle")

\* b is the counter value that comes after a
Follows(a, b) == b = IF a = SeqWrap - 1 THEN 0 ELSE a + 1

\* C26: the blocks of a sendAudio call carry the counter as the call found it
\* and then each the value after the one before, the counter is left at the
\* value after the last block, the value after 0x7FFFFFFE is 0, every frame
\* carries the sequence of its block, and the counter is always in
\* 0..0x7FFFFFFE.
C26_SequenceWrap ==
    /\ 0 <= sequence /\ sequence <= SeqWrap - 1
    /\ op.name = "sendAudio" =>
           /\ Len(blocks) = 0 => sequence = pre.sequence
           /\ Len(blocks) > 0 =>
                  /\ blocks[1].sequence = pre.sequence
                  /\ Follows(blocks[Len(blocks)].sequence, sequence)
           /\ \A i \in 1..(Len(blocks) - 1) :
                  Follows(blocks[i].sequence, blocks[i + 1].sequence)
           /\ \A i \in 1..Len(sent) :
                  sent[i].kind = "data" =>
                      \E j \in 1..Len(blocks) :
                          /\ sent[i].sequence = blocks[j].sequence
                          /\ sent[i].payload = blocks[j].payload

\* one call emits the frames 0x7FFFFFFD, 0x7FFFFFFE and 0 to a sink
C26_Witness ==
    /\ op.name = "sendAudio" /\ Len(blocks) = 3 /\ Len(sent) = 3
    /\ sent[2].kind = "data" /\ sent[2].sequence = SeqWrap - 1
    /\ sent[3].kind = "data" /\ sent[3].sequence = 0
    /\ sequence = 1

\* the offset at which the bytes of the i-th argument end in the whole message
ArgEnd(c, i) ==
    Len(c.whole)
        - Len(Flatten([j \in 1..(Len(c.args) - i) |-> EncodeArg(c.args[i + j])]))

\* C27: decoding a message that was cut short does not throw and returns a
\* prefix of the encoded arguments: every argument it returns is the encoded
\* one at that position, and every argument whose bytes are all in the buffer
\* is returned.
C27_DecoderFailsSoft ==
    codec.step = "cut" =>
        /\ ~codec.decoded.thrown
        /\ Len(codec.decoded.args) <= Len(codec.args)
        /\ \A i \in 1..Len(codec.decoded.args) :
               Same(codec.decoded.args[i], codec.args[i])
        /\ \A i \in 1..Len(codec.args) :
               (EncodeArg(codec.args[i]) # << >> /\ ArgEnd(codec, i) <= Len(codec.bytes))
                   => i <= Len(codec.decoded.args)

\* byte 0 has the binary-domain bit and there are at least 4 bytes, or there is
\* no NUL, or the first NUL is at offset 0, or the text before the first NUL
\* contains none of /invite, /start and /ping
Ignorable(msg) ==
    LET address == toAscii(msg, 0, IndexOfZero(msg, 0))
    IN  \/ Len(msg) >= 4 /\ msg[1] >= kAooBinMsgDomainBit
        \/ \A i \in 1..Len(msg) : msg[i] # 0
        \/ msg[1] = 0
        \/ \A part \in {InvitePart, StartPart, PingPart} : ~Includes(address, part)

\* the datagrams of the model that are of that kind
IgnorableDatagrams == { msg \in Datagrams : Ignorable(msg) }

\* C28: handling such a datagram sends nothing, does not throw, and leaves every
\* field of the source, its sample buffer and its registry as they were.
C28_Ignored ==
    [][op'.msg \in IgnorableDatagrams
          => (sent' = << >> /\ ~threw' /\ UNCHANGED obj)]_vars

\* an /invite with the binary-domain bit set reaches a streaming source that has
\* a sink and leaves no trace
C28_Witness ==
    /\ op.msg = BinaryInvite /\ op.name = "ignore"
    /\ isStreaming /\ Len(sinks) > 0 /\ sent = << >>

\* C29: every audio frame goes to a sink that was sent a /start with the
\* frame's streamId before it, in this call or in an earlier one.
C29_StartBeforeAudio ==
    \A i \in 1..Len(sent) :
        sent[i].kind = "data" =>
            << sent[i].host, sent[i].port, sent[i].sinkId, sent[i].streamId >>
                \in started

\* C30: handling one inbound datagram sends at most one datagram, a /start or a
\* /pong addressed to the host and port the datagram came from; no other sink
\* is sent anything and no audio block is emitted.
C30_ReplyToSenderOnly ==
    op.msg # << >> =>
        /\ Len(sent) <= 1 /\ blocks = << >>
        /\ \A i \in 1..Len(sent) :
               /\ sent[i].kind \in {"start", "pong"}
               /\ sent[i].host = op.peer[1] /\ sent[i].port = op.peer[2]

\* an /invite is accepted by a streaming source that holds buffered samples and
\* has another sink registered: only the sender is answered
C30_Witness ==
    /\ Accepted(op) /\ pre.isStreaming /\ pre.buffered > 0
    /\ Len(sinks) = 2 /\ Len(sent) = 1 /\ sent[1].kind = "start"
    /\ sent[1].host = op.peer[1]

\* C31: an /invite that is handled without a /start going back to its sender
\* (fewer than two arguments, or an exception swallowed while decoding or
\* while building and sending the reply) leaves streamId, formatId, sequence,
\* isStreaming and the registry as they were.
C31_InviteAllOrNothing ==
    [][(op'.name = "invite" /\ sent' = << >>)
          => UNCHANGED << streamId, formatId, sequence, isStreaming, sinks >>]_vars

\* C32: an /invite accepted by a streaming source leaves the sample buffer and
\* the announced flag as they were and changes streamId, formatId and sequence;
\* the first frame emitted after it starts with the samples buffered before it
\* and carries the new streamId.  An /invite accepted by a source that is not
\* streaming leaves the buffer empty and the announced flag cleared.
C32_InviteAndBuffer ==
    /\ [][(Accepted(op') /\ sent' # << >>) =>
             /\ streamId' = op'.args[2] /\ formatId' = 0 /\ sequence' = 0
             /\ IF isStreaming
                THEN UNCHANGED << sampleBuffer, startSent >>
                ELSE sampleBuffer' = << >> /\ ~startSent']_vars
    /\ [][(Accepted(op) /\ sent # << >> /\ pre.isStreaming
              /\ op'.name = "sendAudio" /\ Len(blocks') > 0) =>
             /\ SubSeq(blocks'[1].payload, 1, Len(sampleBuffer)) = sampleBuffer
             /\ blocks'[1].sequence = 0
             /\ \A i \in 1..Len(sent') :
                    sent'[i].kind = "data" => sent'[i].streamId = op.args[2].num]_vars

\* an /invite was accepted by a streaming, announced source with samples in its
\* buffer: they are still there, under the new streamId
C32_Witness ==
    /\ Accepted(op) /\ sent # << >> /\ pre.isStreaming /\ pre.startSent
    /\ pre.buffered > 0 /\ Len(sampleBuffer) = pre.buffered
    /\ startSent /\ streamId = op.args[2] /\ streamId.num \in Tokens

\* C33 as stated: updateSampleRate called while isStreaming is false sends no
\* datagram.
C33_OnlyWhileStreaming_AsStated ==
    (op.name = "updateSampleRate" /\ ~pre.isStreaming) => sent = << >>

\* C33: updateSampleRate sends datagrams only when the announced flag is set
\* and the rate differs; it then sends one /start to every active sink,
\* whether isStreaming is true or false, and nothing else; with the flag clear
\* it sends nothing.
C33_OnlyWhenAnnounced ==
    op.name = "updateSampleRate" =>
        /\ ~threw
        /\ IF pre.startSent /\ op.rate # pre.sampleRate
           THEN OneStartPerActiveSink(sent)
           ELSE sent = << >>

\* a stream was announced to two sinks and stopped; the rate change that
\* follows is still sent to both
C33_Witness ==
    /\ op.name = "updateSampleRate" /\ ~pre.isStreaming /\ ~isStreaming
    /\ pre.startSent /\ op.rate # pre.sampleRate
    /\ Len(sinks) = 2 /\ Len(sent) = 2

==========================================================================
